---------------------------- MODULE Spec2Model ----------------------------
(***************************************************************************)
(* A model of rpi-gamehawk: the 4x4 word-hunt solver (find_words / dfs     *)
(* over a trie built by build_trie), the relative-step mouse controller    *)
(* MouseSE (goto, recalibrate_top_left, _send) and the gesture sequencing  *)
(* loop of solver.py's main.                                               *)
(***************************************************************************)
EXTENDS Integers, Sequences, FiniteSets, TLC

VARIABLES
    pc,              \* main(): the statement main resumes at when no callee runs
    call,            \* the callee that is running: "none", "find_words", "goto", "recalibrate"
    word_file,       \* the lines of the word list that build_trie read
    board,           \* find_words' board: board[row][col], rows and cols 0..3
    trie,            \* the trie: the set of key paths from the root ("$" ends a word)
    valid_starts,    \* find_words: the root keys that occur on the board
    cell,            \* find_words: index of the next start cell of the row/col loops
    stack,           \* the active dfs frames, innermost last
    visited,         \* dfs: the shared visited set
    current_path,    \* dfs: the shared current_path list
    results,         \* find_words: the set of found words
    paths,           \* find_words: word -> first recorded path
    out,             \* the value find_words returned
    mouse,           \* the MouseSE object: current_x, current_y, current_button
    frame,           \* the running (or last) MouseSE method call: its arguments and locals
    io,              \* the transport: the states handed to send_current, failures, reports
    mouse_positions, \* solver.py main: the calibration table, cell index -> (x, y)
    grid_coords,     \* word_hunt_solver.py main: (row, col) -> (x, y)
    main             \* main: the loop variables of the sequencing loop

solverVars == <<word_file, board, trie, valid_starts, cell, stack, visited, current_path,
                results, paths, out>>

mouseVars == <<mouse, frame, io>>

tableVars == <<mouse_positions, grid_coords>>

mainVars == <<tableVars, main>>

vars == <<pc, call, solverVars, mouseVars, mainVars>>

-----------------------------------------------------------------------------
(* Characters: single-character strings with their code points.            *)

CharSet == {"a", "b", "c", "d", "e", "f", "g", "h", "i", "j", "k", "l", "m", "n", "o", "p",
            "A", "B", "C", "1", " ", "$"}

ord(ch) ==
    CASE ch = "a" -> 97  [] ch = "b" -> 98 [] ch = "c" -> 99 [] ch = "d" -> 100
      [] ch = "e" -> 101 [] ch = "f" -> 102 [] ch = "g" -> 103 [] ch = "h" -> 104
      [] ch = "i" -> 105 [] ch = "j" -> 106 [] ch = "k" -> 107 [] ch = "l" -> 108
      [] ch = "m" -> 109 [] ch = "n" -> 110 [] ch = "o" -> 111 [] ch = "p" -> 112
      [] ch = "A" -> 65  [] ch = "B" -> 66 [] ch = "C" -> 67
      [] ch = "1" -> 49  [] ch = " " -> 32 [] ch = "$" -> 36

chr(n) == CHOOSE ch \in CharSet : ord(ch) = n

\* str.lower() on one character
char_lower(ch) == IF ord(ch) >= 65 /\ ord(ch) <= 90 THEN chr(ord(ch) + 32) ELSE ch

\* str.isalpha() on one character
char_isalpha(ch) ==
    \/ ord(ch) >= 65 /\ ord(ch) <= 90
    \/ ord(ch) >= 97 /\ ord(ch) <= 122

char_isspace(ch) == ch = " "

lower(s) == [n \in 1..Len(s) |-> char_lower(s[n])]

\* str.isalpha(): non-empty and every character alphabetic
isalpha(s) == Len(s) > 0 /\ \A n \in 1..Len(s) : char_isalpha(s[n])

\* str.strip(): leading and trailing whitespace removed
strip(s) ==
    LET keep == {n \in 1..Len(s) : ~char_isspace(s[n])}
    IN  IF keep = {} THEN <<>>
        ELSE LET lo == CHOOSE n \in keep : \A m \in keep : n <= m
                 hi == CHOOSE n \in keep : \A m \in keep : n >= m
             IN  SubSeq(s, lo, hi)

\* Python's str <: lexicographic by code point, a proper prefix is smaller
RECURSIVE str_less(_, _)
str_less(u, v) ==
    IF v = <<>> THEN FALSE
    ELSE IF u = <<>> THEN TRUE
    ELSE IF ord(u[1]) # ord(v[1]) THEN ord(u[1]) < ord(v[1])
    ELSE str_less(Tail(u), Tail(v))

-----------------------------------------------------------------------------
(* build_trie: the nested dicts are the set of key paths from the root; a  *)
(* node is the path that leads to it, and word + "$" is its end marker.    *)

MinWordLen == 3

\* lines 28-34: insert one word
trie_insert(t, word) ==
    t \cup {SubSeq(word, 1, n) : n \in 1..Len(word)} \cup {Append(word, "$")}

\* lines 17-25: the cleaned word, and whether the line is skipped
clean_word(line) == lower(strip(line))

\* lines 20-25 without the test of the length
line_skipped_any_length(line) ==
    LET word == clean_word(line)
    IN  word = <<>> \/ ~isalpha(word)

line_skipped(line) ==
    LET word == clean_word(line)
    IN  \/ word = <<>> \/ ~isalpha(word)
        \/ Len(word) < MinWordLen

\* lines 16-34: the loop over the lines. setdefault only adds keys, so the dicts
\* after the loop hold the key paths of the first lines and those of the last
RECURSIVE build_trie(_)
build_trie(lines) ==
    IF lines = <<>> THEN {}
    ELSE IF Len(lines) = 1
    THEN IF line_skipped(lines[1]) THEN {} ELSE trie_insert({}, clean_word(lines[1]))
    ELSE LET h == Len(lines) \div 2
         IN  build_trie(SubSeq(lines, 1, h)) \cup build_trie(SubSeq(lines, h + 1, Len(lines)))

-----------------------------------------------------------------------------
(* The board and get_neighbors.                                            *)

NumRows == 4
NumCols == 4

Cells == (0..(NumRows - 1)) \X (0..(NumCols - 1))

\* solver.py main, line 175: the 16-letter string cut into 4 rows of 4
make_board(board_str) ==
    [r \in 0..3 |-> [c \in 0..3 |-> board_str[r * 4 + c + 1]]]

Offsets == <<-1, 0, 1>>

\* the nine (dr, dc) pairs in the order of the two for clauses
OffsetPairs == [n \in 1..9 |-> <<Offsets[((n - 1) \div 3) + 1], Offsets[((n - 1) % 3) + 1]>>]

neighbor_ok(row, col, d) ==
    /\ (d[1] # 0 \/ d[2] # 0)
    /\ 0 <= row + d[1] /\ row + d[1] < NumRows
    /\ 0 <= col + d[2] /\ col + d[2] < NumCols

RECURSIVE neighbors_from(_, _, _)
neighbors_from(row, col, n) ==
    IF n > 9 THEN <<>>
    ELSE LET d == OffsetPairs[n]
         IN  (IF neighbor_ok(row, col, d) THEN <<<<row + d[1], col + d[2]>>>> ELSE <<>>)
             \o neighbors_from(row, col, n + 1)

get_neighbors(row, col) == neighbors_from(row, col, 1)

-----------------------------------------------------------------------------
(* dfs and find_words.  A dfs frame holds the call's row and col, its      *)
(* next_node, its current_word and the position nbr of the neighbour loop, *)
(* and the values visited and current_path had when the call was made.     *)

NoneNode == <<"None">>

\* find_words, lines 79-80: the root's keys that occur on the board
make_valid_starts(b, t) ==
    LET board_letters == {b[r][c] : r \in 0..3, c \in 0..3}
    IN  {p[1] : p \in {q \in t : Len(q) = 1 /\ q[1] \in board_letters}}

\* dfs, line 55: node.get(letter); the root-level dict is valid_starts
node_get(t, vs, node, letter) ==
    IF node = <<>>
    THEN IF letter \in vs THEN <<letter>> ELSE NoneNode
    ELSE IF Append(node, letter) \in t THEN Append(node, letter) ELSE NoneNode

\* dfs, line 56: "not next_node" is true of None and of an empty dict
node_falsy(t, next_node) ==
    \/ next_node = NoneNode
    \/ ~\E p \in t : Len(p) = Len(next_node) + 1 /\ SubSeq(p, 1, Len(next_node)) = next_node

\* line 63 without the test for the end marker
is_word_end_any_node(t, next_node, current_word) == Len(current_word) >= 3

\* dfs, line 63
is_word_end(t, next_node, current_word) ==
    Append(next_node, "$") \in t /\ Len(current_word) >= 3

\* line 69 without the test of visited
may_enter_always(ncell, vis) == TRUE

\* dfs, line 69
may_enter(ncell, vis) == ncell \notin vis

\* lines 63-66 with the end marker removed once its word is found
trie_after_hit_pruned(t, next_node, hit) ==
    IF hit THEN t \ {Append(next_node, "$")} ELSE t

\* dfs, lines 63-66: the trie after the test; the node is only read
trie_after_hit(t, next_node, hit) == t

\* lines 65-66 without the test: a later path replaces the recorded one
record_path_overwrite(pth, word, path) ==
    [w \in DOMAIN pth \cup {word} |-> IF w = word THEN path ELSE pth[w]]

\* dfs, lines 65-66: paths[current_word] = list(current_path) if the word has none
record_path(pth, word, path) ==
    IF word \notin DOMAIN pth THEN pth @@ (word :> path) ELSE pth

\* dfs, lines 54-66, run at the call: the shared state after the entry
dfs_enter(b, t, vs, row, col, node, current_word, st, vis, cpath, res, pth) ==
    LET letter    == b[row][col]
        next_node == node_get(t, vs, node, letter)
    IN  IF node_falsy(t, next_node)
        THEN [stack |-> st, visited |-> vis, current_path |-> cpath,
              results |-> res, paths |-> pth, trie |-> t]
        ELSE LET word == Append(current_word, letter)
                 path == Append(cpath, <<row, col>>)
                 hit  == is_word_end(t, next_node, word)
             IN  [stack |-> Append(st, [row |-> row, col |-> col, node |-> next_node,
                                        current_word |-> word, nbr |-> 1,
                                        entry_visited |-> vis, entry_path |-> cpath]),
                  visited |-> vis \cup {<<row, col>>},
                  current_path |-> path,
                  results |-> IF hit THEN res \cup {word} ELSE res,
                  paths |-> IF hit THEN record_path(pth, word, path) ELSE pth,
                  trie |-> trie_after_hit(t, next_node, hit)]

\* line 72 left out: the cell stays marked
dfs_unmark_never(vis, row, col) == vis

\* dfs, lines 72-73
dfs_unmark(vis, row, col) == vis \ {<<row, col>>}

\* line 73 left out: the path keeps its last cell
list_pop_skipped(l) == l

\* dfs, line 73: current_path.pop()
list_pop(l) == SubSeq(l, 1, Len(l) - 1)

\* line 86 with the key (len(w), w): shorter words first
sort_key_less_ascending(u, v) ==
    \/ Len(u) < Len(v)
    \/ Len(u) = Len(v) /\ str_less(u, v)

\* find_words, line 86: key(u) < key(v) for key = (-len(w), w)
sort_key_less(u, v) ==
    \/ -Len(u) < -Len(v)
    \/ -Len(u) = -Len(v) /\ str_less(u, v)

\* find_words, line 86: sorted(results, key=...); each word stands after the
\* words whose key is smaller
sorted_words(S) ==
    LET placed == {<<Cardinality({v \in S : sort_key_less(v, w)}), w>> : w \in S}
    IN  [n \in 1..Cardinality(S) |-> (CHOOSE x \in placed : x[1] = n - 1)[2]]

SOLVER_NUMWORDS_LIMIT == 500

\* line 87 left out: the whole sorted list is returned
limited_words_unlimited(sw) == sw

\* find_words, line 87
limited_words(sw) ==
    SubSeq(sw, 1, IF Len(sw) < SOLVER_NUMWORDS_LIMIT THEN Len(sw) ELSE SOLVER_NUMWORDS_LIMIT)

\* find_words, lines 86-89
find_words_result(res, pth) ==
    LET limited == limited_words(sorted_words(res))
    IN  [n \in 1..Len(limited) |-> [word |-> limited[n], coordinates |-> pth[limited[n]]]]

EmptyPaths == [w \in {} |-> <<>>]

\* find_words, lines 76-80: the call
FindWordsCall(b, t) ==
    /\ board' = b
    /\ trie' = t
    /\ valid_starts' = make_valid_starts(b, t)
    /\ cell' = 0
    /\ stack' = <<>>
    /\ visited' = {}
    /\ current_path' = <<>>
    /\ results' = {}
    /\ paths' = EmptyPaths
    /\ out' = <<>>
    /\ call' = "find_words"

\* find_words, lines 82-84: the next start cell, dfs called with a fresh set and list
FwNextCell ==
    /\ call = "find_words"
    /\ stack = <<>>
    /\ cell < NumRows * NumCols
    /\ LET e == dfs_enter(board, trie, valid_starts, cell \div NumCols, cell % NumCols,
                          <<>>, <<>>, <<>>, {}, <<>>, results, paths)
       IN  /\ stack' = e.stack
           /\ visited' = e.visited
           /\ current_path' = e.current_path
           /\ results' = e.results
           /\ paths' = e.paths
           /\ trie' = e.trie
    /\ cell' = cell + 1
    /\ UNCHANGED <<pc, call, word_file, board, valid_starts, out, mouseVars, mainVars>>

\* dfs, lines 68-70: the next neighbour, skipped when visited, else dfs is called on it
DfsNeighbor ==
    /\ call = "find_words"
    /\ stack # <<>>
    /\ LET top  == stack[Len(stack)]
           nbrs == get_neighbors(top.row, top.col)
       IN  /\ top.nbr <= Len(nbrs)
           /\ LET n    == nbrs[top.nbr]
                  st   == [stack EXCEPT ![Len(stack)].nbr = top.nbr + 1]
              IN  IF may_enter(n, visited)
                  THEN LET e == dfs_enter(board, trie, valid_starts, n[1], n[2], top.node,
                                          top.current_word, st, visited, current_path,
                                          results, paths)
                       IN  /\ stack' = e.stack
                           /\ visited' = e.visited
                           /\ current_path' = e.current_path
                           /\ results' = e.results
                           /\ paths' = e.paths
                           /\ trie' = e.trie
                  ELSE /\ stack' = st
                       /\ UNCHANGED <<visited, current_path, results, paths, trie>>
    /\ UNCHANGED <<pc, call, word_file, board, valid_starts, cell, out, mouseVars,
                   mainVars>>

\* dfs, lines 72-73: after the neighbour loop, unmark and pop, then return
DfsReturn ==
    /\ call = "find_words"
    /\ stack # <<>>
    /\ LET top == stack[Len(stack)]
       IN  /\ top.nbr > Len(get_neighbors(top.row, top.col))
           /\ visited' = dfs_unmark(visited, top.row, top.col)
           /\ current_path' = list_pop(current_path)
           /\ stack' = SubSeq(stack, 1, Len(stack) - 1)
    /\ UNCHANGED <<pc, call, word_file, board, trie, valid_starts, cell, results, paths, out,
                   mouseVars, mainVars>>

\* find_words, lines 86-89: sort, limit, return
FwReturn ==
    /\ call = "find_words"
    /\ stack = <<>>
    /\ cell = NumRows * NumCols
    /\ out' = find_words_result(results, paths)
    /\ call' = "none"
    /\ UNCHANGED <<pc, word_file, board, trie, valid_starts, cell, stack, visited,
                   current_path, results, paths, mouseVars, mainVars>>

FindWordsStep == FwNextCell \/ DfsNeighbor \/ DfsReturn \/ FwReturn

\* before find_words is called
InitIdle ==
    /\ call = "none"
    /\ valid_starts = {}
    /\ cell = 0
    /\ stack = <<>>
    /\ visited = {}
    /\ current_path = <<>>
    /\ results = {}
    /\ paths = EmptyPaths
    /\ out = <<>>

-----------------------------------------------------------------------------
(* MouseClient and MouseSE.                                                *)

FIXED_DELTA == 10

MaxFail == 2

\* what the transport can do with the next state: deliver it, or fail
SendOutcomes == {TRUE} \cup (IF io.nfail < MaxFail THEN {FALSE} ELSE {})

\* lines 99-104 without the try: a failure leaves send_current as an exception
send_current_raises(ok) == [raised |-> ~ok, reported |-> FALSE]

\* MouseClient.send_current, lines 99-104: a failure is caught and printed
send_current(ok) == [raised |-> FALSE, reported |-> ~ok]

\* time.sleep: a wait has passed since the last state was sent
time_sleep(t) == [t EXCEPT !.slept = TRUE]

\* MouseSE._send, lines 114-118: the transport after the call; slept is false
\* from a send until the next time.sleep, back_to_back is true once a state
\* was sent with no time.sleep since the state before it, and moved is the sum
\* of the steps that the bytes sent since the last recalibration stand for
mouse_send(m, t, dx, dy, ok) ==
    LET dx_byte == dx % 256
        dy_byte == dy % 256
        state   == <<m.current_button, dx_byte, dy_byte, 0>>
        r       == send_current(ok)
    IN  [sent     |-> Append(t.sent, [state |-> state,
                                      at |-> <<m.current_x, m.current_y>>]),
         moved    |-> <<t.moved[1] + (IF dx_byte >= 128 THEN dx_byte - 256 ELSE dx_byte),
                        t.moved[2] + (IF dy_byte >= 128 THEN dy_byte - 256 ELSE dy_byte)>>,
         nfail    |-> t.nfail + (IF ok THEN 0 ELSE 1),
         reported |-> t.reported + (IF r.reported THEN 1 ELSE 0),
         raised   |-> r.raised,
         slept    |-> FALSE,
         back_to_back |-> t.back_to_back \/ ~t.slept]

Min(a, b) == IF a < b THEN a ELSE b

Abs(n) == IF n < 0 THEN -n ELSE n

\* lines 129 and 131 without the min: always a full step
copysign_step_full(d) == IF d < 0 THEN -FIXED_DELTA ELSE FIXED_DELTA

\* goto, lines 129 and 131: int(math.copysign(min(abs(d), FIXED_DELTA), d))
copysign_step(d) ==
    LET mag == Min(IF d < 0 THEN -d ELSE d, FIXED_DELTA)
    IN  IF d < 0 THEN -mag ELSE mag

\* goto, lines 125-131, for one axis
goto_step(d) == IF d # 0 THEN copysign_step(d) ELSE 0

\* lines 128-131 with y moved only once x has arrived
goto_steps_one_axis(dx, dy) == <<goto_step(dx), IF dx # 0 THEN 0 ELSE goto_step(dy)>>

\* goto, lines 125-131: (step_x, step_y)
goto_steps(dx, dy) == <<goto_step(dx), goto_step(dy)>>

\* goto, lines 121-122: the call's arguments and locals; steps counts the turns of
\* the loop, entry is the object at the call, base the states sent before the call
goto_frame(m, x, y, base) ==
    [op |-> "goto", x |-> x, y |-> y, dx |-> x - m.current_x, dy |-> y - m.current_y,
     steps |-> 0, entry |-> m, base |-> base]

GotoCall(x, y) ==
    /\ frame' = goto_frame(mouse, x, y, Len(io.sent))
    /\ call' = "goto"

\* line 136 left out: only current_x follows the step
goto_advance_x_only(m, step_x, step_y) == [m EXCEPT !.current_x = @ + step_x]

\* goto, lines 135-136: the tracked position follows the step sent
goto_advance(m, step_x, step_y) ==
    [m EXCEPT !.current_x = @ + step_x, !.current_y = @ + step_y]

\* goto, lines 124-141: one turn of the while loop
GotoStep ==
    /\ call = "goto"
    /\ frame.dx # 0 \/ frame.dy # 0
    /\ \E ok \in SendOutcomes :
          LET step_x == goto_steps(frame.dx, frame.dy)[1]
              step_y == goto_steps(frame.dx, frame.dy)[2]
              t      == mouse_send(mouse, io, step_x, step_y, ok)
              m      == goto_advance(mouse, step_x, step_y)
          IN  /\ io' = IF t.raised THEN t ELSE time_sleep(t)
              /\ IF t.raised
                 THEN /\ pc' = "crashed"
                      /\ call' = "none"
                      /\ UNCHANGED <<mouse, frame>>
                 ELSE /\ mouse' = m
                      /\ frame' = [frame EXCEPT !.dx = frame.x - m.current_x,
                                                !.dy = frame.y - m.current_y,
                                                !.steps = @ + 1]
                      /\ UNCHANGED <<pc, call>>
    /\ UNCHANGED <<solverVars, mainVars>>

\* goto: the while loop ends and the call returns
GotoReturn ==
    /\ call = "goto"
    /\ frame.dx = 0 /\ frame.dy = 0
    /\ call' = "none"
    /\ UNCHANGED <<pc, solverVars, mouse, frame, io, mainVars>>

RECAL_STEPS == 20
RECAL_DELTA == -127

\* recalibrate_top_left, line 144: the call; n counts the _send calls made
recal_frame(m, base) == [op |-> "recalibrate", n |-> 0, entry |-> m, base |-> base]

RecalCall ==
    /\ frame' = recal_frame(mouse, Len(io.sent))
    /\ call' = "recalibrate"

\* recalibrate_top_left, lines 145-148: one _send of the two for loops
RecalStep ==
    /\ call = "recalibrate"
    /\ frame.n < 2 * RECAL_STEPS
    /\ \E ok \in SendOutcomes :
          LET t == IF frame.n < RECAL_STEPS
                   THEN mouse_send(mouse, io, RECAL_DELTA, 0, ok)
                   ELSE mouse_send(mouse, io, 0, RECAL_DELTA, ok)
          IN  /\ io' = t
              /\ IF t.raised
                 THEN /\ pc' = "crashed"
                      /\ call' = "none"
                      /\ UNCHANGED frame
                 ELSE /\ frame' = [frame EXCEPT !.n = @ + 1]
                      /\ UNCHANGED <<pc, call>>
    /\ UNCHANGED <<solverVars, mouse, mainVars>>

\* lines 149-150 with only current_x reset
recal_reset_x_only(m) == [m EXCEPT !.current_x = 0]

\* recalibrate_top_left, lines 149-150
recal_reset(m) == [m EXCEPT !.current_x = 0, !.current_y = 0]

\* recalibrate_top_left, lines 149-150, and the return
RecalReturn ==
    /\ call = "recalibrate"
    /\ frame.n = 2 * RECAL_STEPS
    /\ mouse' = recal_reset(mouse)
    /\ io' = [io EXCEPT !.moved = <<0, 0>>]
    /\ call' = "none"
    /\ UNCHANGED <<pc, solverVars, frame, mainVars>>

\* MouseSE.__init__, lines 108-110, and MouseClient's transport before any send
InitMouse ==
    /\ mouse = [current_x |-> 0, current_y |-> 0, current_button |-> 0]
    /\ frame = [op |-> "none"]
    /\ io = [sent |-> <<>>, nfail |-> 0, reported |-> 0, raised |-> FALSE,
             slept |-> TRUE, back_to_back |-> FALSE, moved |-> <<0, 0>>]

\* main's loop variables before the first board: i and k are the positions of the
\* word loop and the drag loop; boards counts the inputs read, released and recals
\* the release states and recalibrations of this board's run, word_base and
\* word_from the sent states and the tracked position when the word's hover began,
\* release_lost whether the transport failed to deliver the latest release state,
\* line the latest line read at the board prompt, args the board and trie handed
\* to the latest call of find_words, prev the arguments and the result of the
\* call before it (<<>> when there is none)
NoMain == [i |-> 0, k |-> 0, boards |-> 0, released |-> 0, recals |-> 0,
           word_base |-> 0, word_from |-> <<0, 0>>, release_lost |-> FALSE,
           line |-> <<>>, args |-> <<>>, prev |-> <<>>, since_recal |-> 0]

\* main's record of a call find_words(b, t) made after the call recorded in m
find_words_called(m, b, t, result) ==
    [m EXCEPT !.args = [board |-> b, trie |-> t],
              !.prev = IF m.args = <<>> THEN <<>> ELSE [args |-> m.args, out |-> result]]

InitMain ==
    /\ mouse_positions = <<>>
    /\ grid_coords = <<>>
    /\ main = NoMain

-----------------------------------------------------------------------------
(* MouseSE alone: constructed, then goto and recalibrate_top_left called   *)
(* in any order with the button held or not.                               *)

MouseTargets == {<<250, -40>>, <<0, 0>>, <<10, 10>>, <<-15, 7>>, <<3, -25>>, <<30, 30>>,
                 <<-10, 0>>, <<21, 20>>}

InitMouseOnly ==
    /\ pc = "construct"
    /\ call = "none"
    /\ word_file = <<>>
    /\ board = make_board([n \in 1..16 |-> "a"])
    /\ trie = {}
    /\ InitIdle
    /\ InitMouse
    /\ InitMain

\* MouseSE.__init__, line 112
Construct ==
    /\ pc = "construct"
    /\ call = "none"
    /\ pc' = "idle"
    /\ RecalCall
    /\ UNCHANGED <<solverVars, mouse, io, mainVars>>

\* a caller sets current_button, as main does at lines 193 and 202
UseButton ==
    /\ pc = "idle"
    /\ call = "none"
    /\ \E b \in {0, 1} :
          /\ b # mouse.current_button
          /\ mouse' = [mouse EXCEPT !.current_button = b]
    /\ UNCHANGED <<pc, call, solverVars, frame, io, mainVars>>

\* a caller's goto; the record of sent states starts afresh
UseGoto ==
    /\ pc = "idle"
    /\ call = "none"
    /\ \E target \in MouseTargets :
          /\ io' = [io EXCEPT !.sent = <<>>, !.back_to_back = FALSE]
          /\ frame' = goto_frame(mouse, target[1], target[2], 0)
          /\ call' = "goto"
    /\ UNCHANGED <<pc, solverVars, mouse, mainVars>>

\* a caller's recalibrate_top_left; the record of sent states starts afresh
UseRecalibrate ==
    /\ pc = "idle"
    /\ call = "none"
    /\ io' = [io EXCEPT !.sent = <<>>, !.back_to_back = FALSE]
    /\ frame' = recal_frame(mouse, 0)
    /\ call' = "recalibrate"
    /\ UNCHANGED <<pc, solverVars, mouse, mainVars>>

NextMouse ==
    \/ Construct \/ UseButton \/ UseGoto \/ UseRecalibrate
    \/ GotoStep \/ GotoReturn \/ RecalStep \/ RecalReturn

SpecMouse == InitMouseOnly /\ [][NextMouse]_vars

-----------------------------------------------------------------------------
(* Properties of MouseSE.goto and MouseSE.recalibrate_top_left.            *)

\* the states the running (or last) call has handed to the transport
CallSent == SubSeq(io.sent, frame.base + 1, Len(io.sent))

\* a byte of a sent state read as a signed 8-bit step
SignedByte(b) == IF b >= 128 THEN b - 256 ELSE b

StepOf(s) == <<SignedByte(s.state[2]), SignedByte(s.state[3])>>

CeilDiv(a, d) == (a + d - 1) \div d

Max(a, b) == IF a > b THEN a ELSE b

\* the steps goto needs from (cx, cy) to (x, y)
StepsNeeded(cx, cy, x, y) ==
    Max(CeilDiv(Abs(x - cx), FIXED_DELTA), CeilDiv(Abs(y - cy), FIXED_DELTA))

\* C5: goto from (cx, cy) to (x, y) emits exactly
\* max(ceil(|x-cx|/D), ceil(|y-cy|/D)) steps, both axes advancing in the same
\* step while both deltas are nonzero, and ends with the tracked position (x, y):
\* the steps made plus the steps still needed always add up to that number.
C5_GotoStepCount ==
    frame.op = "goto" =>
        LET e     == frame.entry
            total == StepsNeeded(e.current_x, e.current_y, frame.x, frame.y)
            nx    == CeilDiv(Abs(frame.x - e.current_x), FIXED_DELTA)
            ny    == CeilDiv(Abs(frame.y - e.current_y), FIXED_DELTA)
        IN  /\ FIXED_DELTA > 0
            /\ Len(CallSent) = frame.steps
            /\ call = "goto" =>
                  frame.steps + StepsNeeded(mouse.current_x, mouse.current_y,
                                            frame.x, frame.y) = total
            /\ \A j \in 1..Len(CallSent) :
                  /\ (StepOf(CallSent[j])[1] # 0) <=> (j <= nx)
                  /\ (StepOf(CallSent[j])[2] # 0) <=> (j <= ny)
            /\ (call = "none" \/ (frame.dx = 0 /\ frame.dy = 0)) =>
                  /\ frame.steps = total
                  /\ mouse.current_x = frame.x
                  /\ mouse.current_y = frame.y

\* goto from (0,0) to (250,-40) has left its loop after 25 steps, 4 of them moving y
C5_Witness ==
    /\ call = "goto"
    /\ frame.entry.current_x = 0 /\ frame.entry.current_y = 0
    /\ frame.x = 250 /\ frame.y = -40
    /\ frame.dx = 0 /\ frame.dy = 0
    /\ frame.steps = 25
    /\ Cardinality({j \in 1..Len(CallSent) : StepOf(CallSent[j])[2] # 0}) = 4
    /\ mouse.current_x = 250 /\ mouse.current_y = -40

Sign(n) == IF n > 0 THEN 1 ELSE IF n < 0 THEN -1 ELSE 0

\* C6: every step goto emits has on each axis the magnitude
\* min(|remaining delta|, FIXED_DELTA) and the remaining delta's sign, goes out
\* through exactly one transport send, and carries the button bitmask held when
\* goto was called.
C6_GotoSteps ==
    frame.op = "goto" =>
        /\ Len(CallSent) = frame.steps
        /\ \A j \in 1..Len(CallSent) :
              LET s    == CallSent[j]
                  remx == frame.x - s.at[1]
                  remy == frame.y - s.at[2]
              IN  /\ Abs(StepOf(s)[1]) = Min(Abs(remx), FIXED_DELTA)
                  /\ Sign(StepOf(s)[1]) = Sign(remx)
                  /\ Abs(StepOf(s)[2]) = Min(Abs(remy), FIXED_DELTA)
                  /\ Sign(StepOf(s)[2]) = Sign(remy)
                  /\ s.state[1] = frame.entry.current_button
                  /\ s.state[4] = 0
                  /\ s.at = IF j = 1
                            THEN <<frame.entry.current_x, frame.entry.current_y>>
                            ELSE <<CallSent[j - 1].at[1] + StepOf(CallSent[j - 1])[1],
                                   CallSent[j - 1].at[2] + StepOf(CallSent[j - 1])[2]>>

\* a goto with the button held has made a step shorter than FIXED_DELTA to the left
C6_Witness ==
    /\ call = "goto"
    /\ frame.entry.current_button = 1
    /\ frame.dx = 0 /\ frame.dy = 0
    /\ \E j \in 1..Len(CallSent) :
          StepOf(CallSent[j])[1] < 0 /\ StepOf(CallSent[j])[1] > -FIXED_DELTA

\* C7: when recalibrate_top_left returns, the tracked position is (0,0), the
\* call has emitted exactly 20 steps (-127, 0) and then exactly 20 steps
\* (0, -127), and the held-button bitmask is the one at the call.
C7_Recalibrate ==
    [][(call = "recalibrate" /\ call' = "none" /\ pc' # "crashed") =>
          LET sent == SubSeq(io'.sent, frame.base + 1, Len(io'.sent))
          IN  /\ mouse'.current_x = 0
              /\ mouse'.current_y = 0
              /\ mouse'.current_button = frame.entry.current_button
              /\ Len(sent) = 40
              /\ \A j \in 1..20 : StepOf(sent[j]) = <<-127, 0>>
              /\ \A j \in 21..40 : StepOf(sent[j]) = <<0, -127>>
              /\ \A j \in 1..40 : sent[j].state[1] = frame.entry.current_button]_vars

\* recalibrate_top_left has returned from a call made away from (0,0), button held
C7_Witness ==
    /\ call = "none"
    /\ frame.op = "recalibrate"
    /\ frame.entry.current_x # 0 /\ frame.entry.current_y # 0
    /\ frame.entry.current_button = 1
    /\ mouse.current_x = 0 /\ mouse.current_y = 0

-----------------------------------------------------------------------------
(* The solver alone: find_words called once on a board and a trie that     *)
(* build_trie made from a word file.                                       *)

MaxLines == 3

BoardRows == {<<"a", "b", "c", "a">>, <<"c", "a", "b", "b">>}

BoardStrs == {r[1] \o r[2] \o r[3] \o r[4] : r \in [1..4 -> BoardRows]}

DictLines == << <<"a", "b", "c">>, <<"a", "b", "c", "a">>, <<"a", "b">>,
                <<" ", "C", "a", "b", " ">>, <<"b", "a", "b">>,
                <<"c", "b", "a", "c">> >>

RECURSIVE pick_lines(_, _)
pick_lines(S, n) ==
    IF n > Len(DictLines) THEN <<>>
    ELSE (IF n \in S THEN <<DictLines[n]>> ELSE <<>>) \o pick_lines(S, n + 1)

WordFiles == {pick_lines(S, 1) : S \in {T \in SUBSET (1..Len(DictLines)) : Cardinality(T) <= MaxLines}}

\* a trie that build_trie did not make: "ab" ends a word at depth 2, and the node
\* "ba" is an empty dict
LoadedTries ==
    {{<<"a">>, <<"a", "b">>, <<"a", "b", "$">>, <<"a", "b", "c">>, <<"a", "b", "c", "$">>,
      <<"b">>, <<"b", "a">>}}

InitSolve ==
    /\ pc = "solve"
    /\ board \in {make_board(s) : s \in BoardStrs}
    /\ \/ /\ word_file \in WordFiles
          /\ trie = build_trie(word_file)
       \/ /\ word_file = <<>>
          /\ trie \in LoadedTries
    /\ InitIdle
    /\ InitMouse
    /\ InitMain

SolveCall ==
    /\ pc = "solve"
    /\ call = "none"
    /\ pc' = "returned"
    /\ FindWordsCall(board, trie)
    /\ UNCHANGED <<word_file, mouseVars, mainVars>>

NextSolve == SolveCall \/ FwNextCell \/ DfsNeighbor \/ DfsReturn \/ FwReturn

SpecSolve == InitSolve /\ [][NextSolve]_vars

-----------------------------------------------------------------------------
(* Properties of find_words' result.                                       *)

Returned == pc = "returned" /\ call = "none"

Adjacent(c, d) == c # d /\ Abs(c[1] - d[1]) <= 1 /\ Abs(c[2] - d[2]) <= 1

\* p is a simple path of 8-adjacent cells of the board that spells w
SpellsOnBoard(p, w) ==
    /\ Len(p) = Len(w)
    /\ \A n \in 1..Len(p) : p[n] \in Cells /\ board[p[n][1]][p[n][2]] = w[n]
    /\ \A n, m \in 1..Len(p) : n # m => p[n] # p[m]
    /\ \A n \in 1..(Len(p) - 1) :
          Abs(p[n + 1][1] - p[n][1]) <= 1 /\ Abs(p[n + 1][2] - p[n][2]) <= 1

\* C1: every entry returned by find_words has a path that is a simple path of
\* 8-adjacent cells spelling its word.
C1_PathSpellsWord ==
    \A n \in 1..Len(out) : SpellsOnBoard(out[n].coordinates, out[n].word)

\* a returned word of four letters whose path takes a diagonal step
C1_Witness ==
    /\ Returned
    /\ \E n \in 1..Len(out) :
          /\ Len(out[n].word) = 4
          /\ \E m \in 1..3 : LET p == out[n].coordinates
                             IN  p[m + 1][1] # p[m][1] /\ p[m + 1][2] # p[m][2]

\* the words of the word list, as build_trie cleans them
ListedWords == {clean_word(word_file[n]) : n \in 1..Len(word_file)}

\* C2: every word returned by find_words has length >= 3 and is a word of the
\* word list the trie was built from (its characters lead to a node with "$").
C2_WordsFromList ==
    trie = build_trie(word_file) =>
        \A n \in 1..Len(out) :
            /\ Len(out[n].word) >= 3
            /\ out[n].word \in ListedWords
            /\ Append(out[n].word, "$") \in trie

\* a word is returned while the list also holds a longer word with that prefix,
\* a line that is too short and a line that needs cleaning
C2_Witness ==
    /\ Returned
    /\ Len(out) >= 1
    /\ \E n \in 1..Len(word_file) : Len(word_file[n]) < 3
    /\ \E n \in 1..Len(out) : \E p \in trie :
          Len(p) > Len(out[n].word) + 1 /\ SubSeq(p, 1, Len(out[n].word)) = out[n].word

\* the simple paths of 8-adjacent cells that spell the first n letters of w
RECURSIVE SpellPaths(_, _)
SpellPaths(w, n) ==
    IF n = 1 THEN {<<c>> : c \in {d \in Cells : board[d[1]][d[2]] = w[1]}}
    ELSE {Append(x[1], x[2]) :
            x \in {y \in SpellPaths(w, n - 1) \X Cells :
                     /\ Adjacent(y[1][n - 1], y[2])
                     /\ \A m \in 1..(n - 1) : y[1][m] # y[2]
                     /\ board[y[2][1]][y[2][2]] = w[n]}}

\* the dictionary words of length >= 3 that some simple path spells
SpellableWords ==
    {w \in {v \in ListedWords : isalpha(v) /\ Len(v) >= 3} : SpellPaths(w, Len(w)) # {}}

\* C3: every dictionary word of length >= 3 spelled by a simple path of
\* 8-adjacent cells is in find_words' result, when there are at most
\* SOLVER_NUMWORDS_LIMIT such words.
C3_Complete ==
    (Returned /\ trie = build_trie(word_file)
              /\ Cardinality(SpellableWords) <= SOLVER_NUMWORDS_LIMIT)
        => \A w \in SpellableWords : \E n \in 1..Len(out) : out[n].word = w

\* find_words has returned at least two spellable dictionary words
C3_Witness ==
    /\ Returned
    /\ Cardinality(SpellableWords) >= 2
    /\ Len(out) >= 2

\* u is lexically smaller than v: they differ first at a place where u's
\* character has the smaller code point, or u is a proper prefix of v
LexSmaller(u, v) ==
    \/ Len(u) < Len(v) /\ SubSeq(v, 1, Len(u)) = u
    \/ \E n \in 1..Len(u) :
          /\ n <= Len(v)
          /\ SubSeq(u, 1, n - 1) = SubSeq(v, 1, n - 1)
          /\ ord(u[n]) < ord(v[n])

\* C4: the returned sequence is strictly ordered, longer words first and words
\* of equal length in ascending lexical order; no word occurs twice.
C4_StrictlyOrdered ==
    \A n, m \in 1..Len(out) :
        n < m => \/ Len(out[n].word) > Len(out[m].word)
                 \/ /\ Len(out[n].word) = Len(out[m].word)
                    /\ LexSmaller(out[n].word, out[m].word)

\* a result with a longer word before a shorter one and two words of equal length
C4_Witness ==
    /\ Returned
    /\ \E n, m \in 1..Len(out) : Len(out[n].word) > Len(out[m].word)
    /\ \E n, m \in 1..Len(out) : n # m /\ Len(out[n].word) = Len(out[m].word)

\* the set of cells of a path
CellsOf(path) == {path[n] : n \in 1..Len(path)}

\* C20: every call of dfs, whether it prunes at once or recurses, returns with
\* the shared visited set and current_path list as they were at its entry, and
\* while a call is active below the prune check visited is exactly the set of
\* cells of current_path.
C20_DfsRestores ==
    /\ [](call = "find_words" =>
            /\ visited = CellsOf(current_path)
            /\ Len(current_path) = Len(stack)
            /\ \A n \in 1..Len(stack) : current_path[n] = <<stack[n].row, stack[n].col>>
            /\ Cardinality(visited) = Len(current_path))
    /\ [][(call = "find_words" /\ stack # <<>>) =>
            /\ Len(stack') < Len(stack) =>
                  /\ visited' = stack[Len(stack)].entry_visited
                  /\ current_path' = stack[Len(stack)].entry_path
            /\ Len(stack') = Len(stack) =>
                  /\ visited' = visited
                  /\ current_path' = current_path]_vars

\* dfs is on a cell that an earlier path of the same start cell went through
\* at another place: the cell was released by backtracking and entered again
C20_Witness ==
    /\ call = "find_words"
    /\ Len(current_path) >= 3
    /\ \E w \in DOMAIN paths :
          /\ paths[w][1] = current_path[1]
          /\ current_path[Len(current_path)] \in CellsOf(paths[w])
          /\ paths[w][2] # current_path[2]

\* a cell's place in row-major order, which is also the order of get_neighbors
CellIndex(c) == c[1] * NumCols + c[2]

\* the search meets path p before path q of the same length: at the first place
\* where they differ p takes the cell that comes first
MetBefore(p, q) ==
    \E n \in 1..Len(p) :
        /\ SubSeq(p, 1, n - 1) = SubSeq(q, 1, n - 1)
        /\ CellIndex(p[n]) < CellIndex(q[n])

\* the first path spelling w that the search meets
FirstPath(w) ==
    LET all == SpellPaths(w, Len(w))
    IN  CHOOSE p \in all : \A q \in all \ {p} : MetBefore(p, q)

\* C21: the path find_words returns for a word is the first path spelling it
\* that the search meets, start cells tried in row-major order and neighbours
\* in the order of get_neighbors; a recorded path is never replaced and later
\* backtracking does not alter it.
C21_FirstDiscovery ==
    /\ [][call = "find_words" =>
            \A w \in DOMAIN paths' :
                IF w \in DOMAIN paths
                THEN paths'[w] = paths[w]
                ELSE /\ paths'[w] = current_path'
                     /\ paths'[w] = FirstPath(w)]_vars
    /\ [][(call = "find_words" /\ call' = "none") =>
            /\ DOMAIN paths' = DOMAIN paths
            /\ \A n \in 1..Len(out') : out'[n].coordinates = paths[out'[n].word]]_vars

\* a returned word that more than two paths spell, found again by the search
\* after its path was recorded
C21_Witness ==
    /\ Returned
    /\ \E n \in 1..Len(out) :
          /\ Cardinality(SpellPaths(out[n].word, Len(out[n].word))) > 2
          /\ out[n].coordinates = FirstPath(out[n].word)

-----------------------------------------------------------------------------
(* find_words on a board of sixteen different letters with a word file of  *)
(* about SOLVER_NUMWORDS_LIMIT words that the board spells: every word of  *)
(* three cells, and some of the words of four cells that start at "b".     *)

MaxOver == 8

DenseBoard == <<"a", "b", "c", "d", "e", "f", "g", "h", "i", "j", "k", "l", "m", "n", "o", "p">>

\* the simple paths of n 8-adjacent cells
RECURSIVE BoardPaths(_)
BoardPaths(n) ==
    IF n = 1 THEN {<<c>> : c \in Cells}
    ELSE {Append(x[1], x[2]) :
            x \in {y \in BoardPaths(n - 1) \X Cells :
                     /\ Adjacent(y[1][n - 1], y[2])
                     /\ \A m \in 1..(n - 1) : y[1][m] # y[2]}}

\* the word a path spells on the dense board
DenseWord(p) == [n \in 1..Len(p) |-> DenseBoard[CellIndex(p[n]) + 1]]

RECURSIVE PathCode(_)
PathCode(p) ==
    IF p = <<>> THEN 0
    ELSE PathCode(SubSeq(p, 1, Len(p) - 1)) * (NumRows * NumCols) + CellIndex(p[Len(p)])

\* the first k paths of four cells that start at cell (0, 1)
LongPaths(k) ==
    LET from_b == {p \in BoardPaths(4) : p[1] = <<0, 1>>}
    IN  {p \in from_b : Cardinality({q \in from_b : PathCode(q) < PathCode(p)}) < k}

\* n words: all of three letters, the others of four
DenseWords(n) ==
    LET short == {DenseWord(p) : p \in BoardPaths(3)}
    IN  short \cup {DenseWord(p) : p \in LongPaths(n - Cardinality(short))}

\* the lines of a file that holds the words of S, one each, by their letters' cells
lines_of(S) ==
    LET coded  == {<<PathCode([n \in 1..Len(w) |->
                         CHOOSE c \in Cells : DenseBoard[CellIndex(c) + 1] = w[n]]), w>> :
                     w \in S}
        placed == {<<Cardinality({y \in coded : y[1] < x[1]}), x[2]>> : x \in coded}
    IN  [n \in 1..Cardinality(S) |-> (CHOOSE x \in placed : x[1] = n - 1)[2]]

DenseSizes ==
    {SOLVER_NUMWORDS_LIMIT - 1, SOLVER_NUMWORDS_LIMIT, SOLVER_NUMWORDS_LIMIT + 1,
     SOLVER_NUMWORDS_LIMIT + MaxOver}

InitDense ==
    /\ pc = "solve"
    /\ board = make_board(DenseBoard)
    /\ word_file \in {lines_of(DenseWords(n)) : n \in DenseSizes}
    /\ trie = build_trie(word_file)
    /\ InitIdle
    /\ InitMouse
    /\ InitMain

SpecDense == InitDense /\ [][NextSolve]_vars

\* u comes before v in find_words' order: longer first, then lexically smaller
RanksBefore(u, v) ==
    \/ Len(u) > Len(v)
    \/ Len(u) = Len(v) /\ LexSmaller(u, v)

\* C22: with N distinct valid words on the board, find_words returns exactly
\* min(N, SOLVER_NUMWORDS_LIMIT) entries, each with its path, and every valid
\* word left out ranks after every returned word in the result order.
C22_LimitKeepsBest ==
    (Returned /\ trie = build_trie(word_file)) =>
        LET N        == Cardinality(SpellableWords)
            returned == {out[n].word : n \in 1..Len(out)}
        IN  /\ Len(out) = IF N < SOLVER_NUMWORDS_LIMIT THEN N ELSE SOLVER_NUMWORDS_LIMIT
            /\ Cardinality(returned) = Len(out)
            /\ \A n \in 1..Len(out) : SpellsOnBoard(out[n].coordinates, out[n].word)
            /\ returned \subseteq SpellableWords
            /\ \A w \in SpellableWords \ returned : \A v \in returned : RanksBefore(v, w)

\* the board spells more than SOLVER_NUMWORDS_LIMIT words of the file and the
\* result holds SOLVER_NUMWORDS_LIMIT of them
C22_Witness ==
    /\ Returned
    /\ Cardinality(SpellableWords) > SOLVER_NUMWORDS_LIMIT
    /\ Len(out) = SOLVER_NUMWORDS_LIMIT

-----------------------------------------------------------------------------
(* solver.py's main: the board prompt, find_words, and the sequencing loop *)
(* hover, press, drag, release, with a recalibration every third word.     *)

MaxBoards == 2

\* lines 154-155
coord_to_index(coord) == coord[1] * 4 + coord[2]

\* lines 157-159; the lookup raises KeyError for a missing index
has_mouse_pos(coord, mp) == coord_to_index(coord) \in DOMAIN mp

convert_coord_to_mouse_pos(coord, mp) == mp[coord_to_index(coord)]

\* line 171 without the isalpha test
board_input_invalid_len_only(board_str) == Len(board_str) # 16

\* line 171
board_input_invalid(board_str) == Len(board_str) # 16 \/ ~isalpha(board_str)

\* line 197 with coords[1:-1]: the last cell is left out
drag_cells_but_last(coords) == SubSeq(coords, 2, Len(coords) - 1)

\* line 197: coords[1:]
drag_cells(coords) == SubSeq(coords, 2, Len(coords))

\* line 209 with i in place of i + 1
recal_due_on_index(i) == i % 3 = 0

\* line 209
recal_due(i) == (i + 1) % 3 = 0

\* the calibration tables main may load
gridTable(ox, oy, gx, gy) == [idx \in 0..15 |-> <<ox + gx * (idx % 4), oy + gy * (idx \div 4)>>]

\* load_mouse_positions, line 23: the dict holds the cells the file lists, so a
\* file that leaves a cell out gives a table without that index
table_without(table, missing) == [idx \in (DOMAIN table) \ missing |-> table[idx]]

MouseTables == {gridTable(12, 20, 9, 11), gridTable(5, 7, 23, 10),
                table_without(gridTable(12, 20, 9, 11), {0}),
                table_without(gridTable(12, 20, 9, 11), {5})}

\* the word list of the loaded trie and the lines typed at the prompt
MainWordFile == << <<"a", "b", "c">>, <<"a", "b", "c", "a">>, <<"c", "a", "b">>,
                   <<"b", "a", "b">>, <<"c", "b", "a", "c">>, <<"b", "c", "a">>,
                   <<"a", "c", "b">> >>

BoardInputs == { <<"a", "b", "c", "a">> \o <<"c", "a", "b", "b">>
                    \o <<"a", "b", "c", "a">> \o <<"c", "a", "b", "b">>,
                 <<" ", "A", "a", "a", "a">> \o <<"a", "B", "a", "a">>
                    \o <<"a", "a", "C", "a">> \o <<"a", "a", "a", "A">>,
                 <<"d", "d", "d", "d">> \o <<"d", "d", "d", "d">>
                    \o <<"d", "d", "d", "d">> \o <<"d", "d", "d", "d">>,
                 <<"a", "b", "c", "1">> \o <<"c", "a", "b", "b">>
                    \o <<"a", "b", "c", "a">> \o <<"c", "a", "b", "b">>,
                 <<"a", "b", "c">> }

InitMainProgram ==
    /\ pc = "main_start"
    /\ call = "none"
    /\ word_file = MainWordFile
    /\ trie = build_trie(word_file)
    /\ board = make_board([n \in 1..16 |-> "a"])
    /\ InitIdle
    /\ InitMouse
    /\ mouse_positions \in MouseTables
    /\ grid_coords = <<>>
    /\ main = NoMain

\* lines 164-167: the trie and the table are loaded, MouseSE() recalibrates
MainStart ==
    /\ pc = "main_start"
    /\ call = "none"
    /\ pc' = "prompt"
    /\ RecalCall
    /\ main' = [main EXCEPT !.since_recal = 0]
    /\ UNCHANGED <<solverVars, mouse, io, tableVars>>

\* lines 170-178: a line is read; an invalid one is reported and the prompt repeats,
\* a valid one is cut into the board and find_words is called
Prompt ==
    /\ pc = "prompt"
    /\ call = "none"
    /\ main.boards < MaxBoards
    /\ \E line \in BoardInputs :
          LET board_str == lower(strip(line))
          IN  IF board_input_invalid(board_str)
              THEN /\ main' = [main EXCEPT !.boards = @ + 1, !.line = line]
                   /\ UNCHANGED <<pc, call, solverVars, io>>
              ELSE /\ main' = [find_words_called(main, make_board(board_str), trie, out)
                                  EXCEPT !.boards = @ + 1, !.i = 0, !.k = 0,
                                         !.released = 0, !.recals = 0,
                                         !.word_base = 0, !.release_lost = FALSE,
                                         !.line = line]
                   /\ io' = [sent |-> <<>>, nfail |-> 0, reported |-> 0, raised |-> FALSE,
                             slept |-> io.slept, back_to_back |-> FALSE,
                             moved |-> io.moved]
                   /\ pc' = "solved"
                   /\ FindWordsCall(make_board(board_str), trie)
                   /\ UNCHANGED word_file
    /\ UNCHANGED <<mouse, frame, tableVars>>

\* lines 179-184: the words are printed, then goto(*mouse_positions[0])
Solved ==
    /\ pc = "solved"
    /\ call = "none"
    /\ IF 0 \in DOMAIN mouse_positions
       THEN /\ GotoCall(mouse_positions[0][1], mouse_positions[0][2])
            /\ pc' = "loop"
       ELSE /\ pc' = "crashed"
            /\ UNCHANGED <<call, frame>>
    /\ UNCHANGED <<solverVars, mouse, io, mainVars>>

\* lines 188-192: the next word, and the goto to its first cell; after the last
\* word main is back at the prompt
Loop ==
    /\ pc = "loop"
    /\ call = "none"
    /\ IF main.i < Len(out)
       THEN LET coords == out[main.i + 1].coordinates
            IN  IF has_mouse_pos(coords[1], mouse_positions)
                THEN LET first_screen_pos ==
                             convert_coord_to_mouse_pos(coords[1], mouse_positions)
                     IN  /\ GotoCall(first_screen_pos[1], first_screen_pos[2])
                         /\ pc' = "press"
                         /\ main' = [main EXCEPT
                                        !.word_base = Len(io.sent),
                                        !.word_from = <<mouse.current_x, mouse.current_y>>]
                ELSE /\ pc' = "crashed"
                     /\ UNCHANGED <<call, frame, main>>
       ELSE /\ pc' = "prompt"
            /\ UNCHANGED <<call, frame, main>>
    /\ UNCHANGED <<solverVars, mouse, io, tableVars>>

\* lines 193-195: the button is set and the press state sent
Press ==
    /\ pc = "press"
    /\ call = "none"
    /\ \E ok \in SendOutcomes :
          LET m == [mouse EXCEPT !.current_button = 1]
              t == mouse_send(m, io, 0, 0, ok)
          IN  /\ mouse' = m
              /\ io' = IF t.raised THEN t ELSE time_sleep(t)
              /\ pc' = IF t.raised THEN "crashed" ELSE "drag"
    /\ main' = [main EXCEPT !.k = 0]
    /\ UNCHANGED <<call, solverVars, frame, tableVars>>

\* lines 197-200: the goto to the next cell of coords[1:]
Drag ==
    /\ pc = "drag"
    /\ call = "none"
    /\ LET cells == drag_cells(out[main.i + 1].coordinates)
       IN  /\ main.k < Len(cells)
           /\ IF has_mouse_pos(cells[main.k + 1], mouse_positions)
              THEN LET screen_pos ==
                           convert_coord_to_mouse_pos(cells[main.k + 1], mouse_positions)
                   IN  /\ GotoCall(screen_pos[1], screen_pos[2])
                       /\ main' = [main EXCEPT !.k = @ + 1]
                       /\ UNCHANGED pc
              ELSE /\ pc' = "crashed"
                   /\ UNCHANGED <<call, frame, main>>
    /\ UNCHANGED <<solverVars, mouse, io, tableVars>>

\* lines 202-206: after the last cell the button is cleared and the release state sent
Release ==
    /\ pc = "drag"
    /\ call = "none"
    /\ main.k = Len(drag_cells(out[main.i + 1].coordinates))
    /\ \E ok \in SendOutcomes :
          LET m == [mouse EXCEPT !.current_button = 0]
              t == mouse_send(m, io, 0, 0, ok)
          IN  /\ mouse' = m
              /\ io' = IF t.raised THEN t ELSE time_sleep(t)
              /\ pc' = IF t.raised THEN "crashed" ELSE "released"
              /\ main' = [main EXCEPT !.released = @ + 1, !.release_lost = ~ok,
                                       !.since_recal = IF t.raised THEN @ ELSE @ + 1]
    /\ UNCHANGED <<call, solverVars, frame, tableVars>>

\* lines 209-211 and the loop's next turn: recalibrate after every third word
AfterRelease ==
    /\ pc = "released"
    /\ call = "none"
    /\ IF recal_due(main.i)
       THEN /\ RecalCall
            /\ pc' = "recal_wait"
            /\ main' = [main EXCEPT !.i = @ + 1, !.recals = @ + 1, !.since_recal = 0]
       ELSE /\ pc' = "loop"
            /\ main' = [main EXCEPT !.i = @ + 1]
            /\ UNCHANGED <<call, frame>>
    /\ UNCHANGED <<solverVars, mouse, io, tableVars>>

\* line 211: time.sleep(0.3) after the recalibration, then the loop's next turn
RecalWait ==
    /\ pc = "recal_wait"
    /\ call = "none"
    /\ io' = time_sleep(io)
    /\ pc' = "loop"
    /\ UNCHANGED <<call, solverVars, mouse, frame, mainVars>>

NextMain ==
    \/ MainStart \/ Prompt \/ Solved \/ Loop \/ Press \/ Drag \/ Release \/ AfterRelease
    \/ RecalWait
    \/ FwNextCell \/ DfsNeighbor \/ DfsReturn \/ FwReturn
    \/ GotoStep \/ GotoReturn \/ RecalStep \/ RecalReturn

SpecMain == InitMainProgram /\ [][NextMain]_vars

-----------------------------------------------------------------------------
(* word_hunt_solver.py: the grid coordinates, AbsoluteMouse and main.  Its *)
(* find_words, dfs and get_neighbors are those of solver.py, line for line. *)

TOP_LEFT_X == 7500
TOP_LEFT_Y == 15750
BOTTOM_RIGHT_X == 25000
BOTTOM_RIGHT_Y == 24000

\* int() of a quotient: the fraction is cut off, towards zero
int_div(num, den) == IF num >= 0 THEN num \div den ELSE -((-num) \div den)

\* get_grid_coordinates, lines 29-36; top + n * ((bottom - top) / 3) is kept exact
\* as (3 * top + n * (bottom - top)) / 3 until int() cuts it
grid_axis(top, bottom, n) == int_div(3 * top + n * (bottom - top), 3)

\* lines 32-36 with row and col exchanged
grid_coordinates_transposed(tlx, tly, brx, bry) ==
    [rc \in Cells |-> <<grid_axis(tlx, brx, rc[1]), grid_axis(tly, bry, rc[2])>>]

\* get_grid_coordinates, lines 26-38, for the corners the module configures:
\* coords[(row, col)] = (x, y), x from col and y from row
grid_coordinates(tlx, tly, brx, bry) ==
    [rc \in Cells |-> <<grid_axis(tlx, brx, rc[2]), grid_axis(tly, bry, rc[1])>>]

get_grid_coordinates ==
    grid_coordinates(TOP_LEFT_X, TOP_LEFT_Y, BOTTOM_RIGHT_X, BOTTOM_RIGHT_Y)

ABS_MAX == 32767

\* lines 121-122 left out: the coordinate goes to the bytes as it is
clamp_none(v) == v

\* send_cmd, lines 121-122
clamp(v) == IF v > ABS_MAX THEN ABS_MAX ELSE IF v < 0 THEN 0 ELSE v

\* send_cmd, lines 133-136: a failure is caught and printed
send_cmd_outcome(ok) == [raised |-> FALSE, reported |-> ~ok]

\* AbsoluteMouse.send_cmd, lines 119-136: the transport after the call
send_cmd(t, buttons, x0, y0, wheel, ok) ==
    LET x      == clamp(x0)
        y      == clamp(y0)
        x_low  == x % 256
        x_high == (x \div 256) % 256
        y_low  == y % 256
        y_high == (y \div 256) % 256
        state  == <<buttons, x_low, x_high, y_low, y_high, wheel>>
        r      == send_cmd_outcome(ok)
    IN  [sent     |-> Append(t.sent, [state |-> state]),
         moved    |-> t.moved,
         nfail    |-> t.nfail + (IF ok THEN 0 ELSE 1),
         reported |-> t.reported + (IF r.reported THEN 1 ELSE 0),
         raised   |-> r.raised,
         slept    |-> FALSE,
         back_to_back |-> t.back_to_back \/ ~t.slept]

\* main, line 158: the letters a-z of the lowercased line
RECURSIVE letters_only(_)
letters_only(str) ==
    IF str = <<>> THEN <<>>
    ELSE LET c == char_lower(str[1])
         IN  (IF ord("a") <= ord(c) /\ ord(c) <= 122 THEN <<c>> ELSE <<>>)
             \o letters_only(Tail(str))

InitHuntProgram ==
    /\ pc = "hunt_start"
    /\ call = "none"
    /\ word_file = MainWordFile
    /\ trie = build_trie(word_file)
    /\ board = make_board([n \in 1..16 |-> "a"])
    /\ InitIdle
    /\ InitMouse
    /\ InitMain

\* lines 140-149: the trie is loaded, the grid computed, the mouse constructed
HuntStart ==
    /\ pc = "hunt_start"
    /\ call = "none"
    /\ grid_coords' = get_grid_coordinates
    /\ pc' = "hunt_prompt"
    /\ UNCHANGED <<call, solverVars, mouseVars, mouse_positions, main>>

\* lines 153-170: a line is read; one without exactly 16 letters is reported and
\* the prompt repeats, else the board is made and find_words called
HuntPrompt ==
    /\ pc = "hunt_prompt"
    /\ call = "none"
    /\ main.boards < MaxBoards
    /\ \E raw_input \in BoardInputs :
          LET board_str == letters_only(raw_input)
          IN  IF Len(board_str) # 16
              THEN /\ main' = [main EXCEPT !.boards = @ + 1, !.line = raw_input]
                   /\ UNCHANGED <<pc, call, solverVars, io>>
              ELSE /\ main' = [find_words_called(main, make_board(board_str), trie, out)
                                  EXCEPT !.boards = @ + 1, !.i = 0, !.k = 0,
                                         !.released = 0, !.recals = 0,
                                         !.word_base = 0, !.release_lost = FALSE,
                                         !.line = raw_input]
                   /\ io' = [sent |-> <<>>, nfail |-> 0, reported |-> 0, raised |-> FALSE,
                             slept |-> io.slept, back_to_back |-> FALSE,
                             moved |-> io.moved]
                   /\ pc' = "hunt_loop"
                   /\ FindWordsCall(make_board(board_str), trie)
                   /\ UNCHANGED word_file
    /\ UNCHANGED <<mouse, frame, tableVars>>

\* lines 180-187: the next word's hover state; after the last word the prompt
HuntHover ==
    /\ pc = "hunt_loop"
    /\ call = "none"
    /\ IF main.i < Len(out)
       THEN \E ok \in SendOutcomes :
               LET path == out[main.i + 1].coordinates
                   s    == grid_coords[path[1]]
                   t    == send_cmd(io, 0, s[1], s[2], 0, ok)
               IN  /\ io' = IF t.raised THEN t ELSE time_sleep(t)
                   /\ pc' = IF t.raised THEN "crashed" ELSE "hunt_press"
                   /\ main' = [main EXCEPT !.word_base = Len(io.sent)]
       ELSE /\ pc' = "hunt_prompt"
            /\ UNCHANGED <<io, main>>
    /\ UNCHANGED <<call, solverVars, mouse, frame, tableVars>>

\* lines 189-191: the press state
HuntPress ==
    /\ pc = "hunt_press"
    /\ call = "none"
    /\ \E ok \in SendOutcomes :
          LET s == grid_coords[out[main.i + 1].coordinates[1]]
              t == send_cmd(io, 1, s[1], s[2], 0, ok)
          IN  /\ io' = IF t.raised THEN t ELSE time_sleep(t)
              /\ pc' = IF t.raised THEN "crashed" ELSE "hunt_drag"
    /\ main' = [main EXCEPT !.k = 0]
    /\ UNCHANGED <<call, solverVars, mouse, frame, tableVars>>

\* lines 194-197: the state of the next cell of path[1:]
HuntDrag ==
    /\ pc = "hunt_drag"
    /\ call = "none"
    /\ LET cells == SubSeq(out[main.i + 1].coordinates, 2, Len(out[main.i + 1].coordinates))
       IN  /\ main.k < Len(cells)
           /\ \E ok \in SendOutcomes :
                 LET s == grid_coords[cells[main.k + 1]]
                     t == send_cmd(io, 1, s[1], s[2], 0, ok)
                 IN  /\ io' = IF t.raised THEN t ELSE time_sleep(t)
                     /\ pc' = IF t.raised THEN "crashed" ELSE "hunt_drag"
           /\ main' = [main EXCEPT !.k = @ + 1]
    /\ UNCHANGED <<call, solverVars, mouse, frame, tableVars>>

\* lines 199-203: the release state at path[-1], then the loop's next turn
HuntRelease ==
    /\ pc = "hunt_drag"
    /\ call = "none"
    /\ LET path == out[main.i + 1].coordinates
       IN  /\ main.k = Len(path) - 1
           /\ \E ok \in SendOutcomes :
                 LET s == grid_coords[path[Len(path)]]
                     t == send_cmd(io, 0, s[1], s[2], 0, ok)
                 IN  /\ io' = IF t.raised THEN t ELSE time_sleep(t)
                     /\ pc' = IF t.raised THEN "crashed" ELSE "hunt_loop"
                     /\ main' = [main EXCEPT !.i = @ + 1, !.released = @ + 1,
                                              !.release_lost = ~ok]
    /\ UNCHANGED <<call, solverVars, mouse, frame, tableVars>>

NextHunt ==
    \/ HuntStart \/ HuntPrompt \/ HuntHover \/ HuntPress \/ HuntDrag \/ HuntRelease
    \/ FwNextCell \/ DfsNeighbor \/ DfsReturn \/ FwReturn

SpecHunt == InitHuntProgram /\ [][NextHunt]_vars

\* either program, run from its start
InitPrograms == InitMainProgram \/ InitHuntProgram

NextPrograms ==
    \/ MainStart \/ Prompt \/ Solved \/ Loop \/ Press \/ Drag \/ Release \/ AfterRelease
    \/ RecalWait
    \/ GotoStep \/ GotoReturn \/ RecalStep \/ RecalReturn
    \/ HuntStart \/ HuntPrompt \/ HuntHover \/ HuntPress \/ HuntDrag \/ HuntRelease
    \/ FwNextCell \/ DfsNeighbor \/ DfsReturn \/ FwReturn

SpecPrograms == InitPrograms /\ [][NextPrograms]_vars

-----------------------------------------------------------------------------
(* The absolute-mode parts alone: get_grid_coordinates for configured      *)
(* corners, and AbsoluteMouse.send_cmd called with any coordinates.        *)

\* corner coordinates the module may configure, within the device range
Corners == {<<0, 0>>, <<30, 30>>, <<TOP_LEFT_X, TOP_LEFT_Y>>,
            <<BOTTOM_RIGHT_X, BOTTOM_RIGHT_Y>>, <<1, 2>>, <<ABS_MAX, ABS_MAX>>, <<10, 0>>}

\* coordinates a caller may pass to send_cmd
AbsInputs == {-40000, -1, 0, 255, 256, ABS_MAX, ABS_MAX + 1, 65535, 65536, 70000}

InitAbs ==
    /\ pc = "abs_start"
    /\ call = "none"
    /\ word_file = <<>>
    /\ board = make_board([n \in 1..16 |-> "a"])
    /\ trie = {}
    /\ InitIdle
    /\ InitMouse
    /\ mouse_positions = <<>>
    /\ grid_coords = <<>>
    /\ \E tl \in Corners, br \in Corners : main = [tl |-> tl, br |-> br] @@ NoMain

\* main, line 144: grid_coords = get_grid_coordinates()
AbsGrid ==
    /\ pc = "abs_start"
    /\ call = "none"
    /\ grid_coords' = grid_coordinates(main.tl[1], main.tl[2], main.br[1], main.br[2])
    /\ pc' = "abs_ready"
    /\ UNCHANGED <<call, solverVars, mouseVars, mouse_positions, main>>

\* a call of send_cmd; the record of sent states starts afresh, frame keeps the
\* arguments of the call
AbsSend ==
    /\ pc = "abs_ready"
    /\ call = "none"
    /\ \E buttons \in {0, 1}, x \in AbsInputs, y \in AbsInputs, ok \in SendOutcomes :
          /\ io' = send_cmd([io EXCEPT !.sent = <<>>, !.back_to_back = FALSE], buttons, x, y, 0, ok)
          /\ frame' = [op |-> "send_cmd", buttons |-> buttons, x |-> x, y |-> y]
    /\ pc' = "abs_sent"
    /\ UNCHANGED <<call, solverVars, mouse, mainVars>>

\* a call of send_cmd with the coordinates of a grid cell, as main makes it
AbsSendCell ==
    /\ pc = "abs_ready"
    /\ call = "none"
    /\ \E buttons \in {0, 1}, rc \in Cells, ok \in SendOutcomes :
          /\ io' = send_cmd([io EXCEPT !.sent = <<>>, !.back_to_back = FALSE], buttons,
                            grid_coords[rc][1], grid_coords[rc][2], 0, ok)
          /\ frame' = [op |-> "send_cmd", buttons |-> buttons,
                       x |-> grid_coords[rc][1], y |-> grid_coords[rc][2]]
    /\ pc' = "abs_sent"
    /\ UNCHANGED <<call, solverVars, mouse, mainVars>>

\* send_cmd has returned; the caller may call it again
AbsReturn ==
    /\ pc = "abs_sent"
    /\ call = "none"
    /\ pc' = "abs_ready"
    /\ frame' = [op |-> "none"]
    /\ io' = [io EXCEPT !.sent = <<>>]
    /\ UNCHANGED <<call, solverVars, mouse, mainVars>>

NextAbs == AbsGrid \/ AbsSend \/ AbsSendCell \/ AbsReturn

SpecAbs == InitAbs /\ [][NextAbs]_vars

-----------------------------------------------------------------------------
(* Properties of the sequencing loop.                                      *)

\* the word the loop is at, its path, and the states sent for it so far
CurPath == out[main.i + 1].coordinates

WordSent == SubSeq(io.sent, main.word_base + 1, Len(io.sent))

CoordOf(c) == mouse_positions[c[1] * 4 + c[2]]

\* the position a sent state ends at: the tracked position plus its step
EndOf(s) == <<s.at[1] + StepOf(s)[1], s.at[2] + StepOf(s)[2]>>

\* seg is hover, press, drag, release along path: states with bitmask 0 that end
\* at the first cell's coordinate, one state with bitmask 1 there, for each later
\* cell in order states with bitmask 1 that end at its coordinate, and one state
\* with bitmask 0 at the last cell's coordinate
IsGesture(seg, path) ==
    LET L == Len(seg)
        n == Len(path)
    IN  \E p \in 1..(L - 1) :
          /\ \A j \in 1..(p - 1) : seg[j].state[1] = 0 /\ StepOf(seg[j]) # <<0, 0>>
          /\ p > 1 => EndOf(seg[p - 1]) = CoordOf(path[1])
          /\ seg[p].state[1] = 1
          /\ StepOf(seg[p]) = <<0, 0>>
          /\ seg[p].at = CoordOf(path[1])
          /\ \A j \in (p + 1)..(L - 1) : seg[j].state[1] = 1 /\ StepOf(seg[j]) # <<0, 0>>
          /\ \E f \in [2..n -> p..(L - 1)] :
                /\ \A c \in 2..n : EndOf(seg[f[c]]) = CoordOf(path[c])
                /\ \A c \in 2..(n - 1) : f[c] <= f[c + 1]
                /\ f[n] = L - 1
          /\ seg[L].state[1] = 0
          /\ StepOf(seg[L]) = <<0, 0>>
          /\ seg[L].at = CoordOf(path[n])

\* the absolute position a state of AbsoluteMouse carries, low byte first
AbsPos(s) == <<s.state[2] + 256 * s.state[3], s.state[4] + 256 * s.state[5]>>

\* the same for AbsoluteMouse, whose every state carries its position: one hover
\* state, one press state, one state per later cell, one release state
IsAbsGesture(seg, path) ==
    LET n == Len(path)
    IN  /\ Len(seg) = n + 2
        /\ seg[1].state[1] = 0 /\ AbsPos(seg[1]) = grid_coords[path[1]]
        /\ seg[2].state[1] = 1 /\ AbsPos(seg[2]) = grid_coords[path[1]]
        /\ \A c \in 2..n : seg[c + 1].state[1] = 1 /\ AbsPos(seg[c + 1]) = grid_coords[path[c]]
        /\ seg[n + 2].state[1] = 0 /\ AbsPos(seg[n + 2]) = grid_coords[path[n]]

\* C8: the states sent for each returned word, taken in ranked order and one at
\* a time, form hover, press, drag, release along the word's path, with no
\* state of another word in between (solver.py after each release, and
\* word_hunt_solver.py at the loop's next turn).
C8_GestureSequence ==
    /\ (pc = "released" /\ call = "none") =>
          /\ main.released = main.i + 1
          /\ main.i + 1 <= Len(out)
          /\ IsGesture(WordSent, CurPath)
    /\ (pc = "hunt_loop" /\ call = "none" /\ main.i >= 1) =>
          /\ main.released = main.i
          /\ main.i <= Len(out)
          /\ IsAbsGesture(WordSent, out[main.i].coordinates)

\* the release of a four-letter word that is not the first word of its board
C8_Witness ==
    /\ pc = "released" /\ call = "none"
    /\ main.i >= 1
    /\ Len(CurPath) = 4
    /\ Len(WordSent) > 6

\* the sent states of this board's run that are recalibrate_top_left's first steps
RecalSteps == {j \in 1..Len(io.sent) : StepOf(io.sent[j]) = <<-127, 0>>}

\* C9: in the loop over one board's results, recalibrate_top_left is invoked
\* after the release of the k-th word exactly when k is a positive multiple of
\* 3, before the hover of word k+1 and with the bitmask 0, and after no other
\* word.
C9_RecalEveryThird ==
    /\ pc \in {"recal_wait", "loop", "press", "drag"} =>
          /\ main.i = main.released
          /\ main.recals = main.released \div 3
    /\ (pc \in {"recal_wait", "loop", "press", "drag"} /\ call # "recalibrate") =>
          Cardinality(RecalSteps) = 20 * (main.released \div 3)
    /\ pc = "released" =>
          /\ main.i + 1 = main.released
          /\ main.recals = (main.released - 1) \div 3
          /\ Cardinality(RecalSteps) = 20 * ((main.released - 1) \div 3)
    /\ (call = "recalibrate" /\ pc # "prompt") =>
          /\ pc = "recal_wait"
          /\ main.released > 0
          /\ main.released % 3 = 0
          /\ mouse.current_button = 0

\* the second recalibration of a board's run, after the sixth word
C9_Witness ==
    /\ call = "recalibrate"
    /\ pc = "recal_wait"
    /\ main.released = 6
    /\ main.recals = 2

\* the states goto sends from position from to position to with bitmask btn when
\* every send succeeds
RECURSIVE MovePlan(_, _, _)
MovePlan(from, to, btn) ==
    IF from = to THEN <<>>
    ELSE LET sx == Sign(to[1] - from[1]) * Min(Abs(to[1] - from[1]), FIXED_DELTA)
             sy == Sign(to[2] - from[2]) * Min(Abs(to[2] - from[2]), FIXED_DELTA)
         IN  <<[state |-> <<btn, sx % 256, sy % 256, 0>>, at |-> from]>>
             \o MovePlan(<<from[1] + sx, from[2] + sy>>, to, btn)

RECURSIVE DragPlan(_, _, _)
DragPlan(from, path, c) ==
    IF c > Len(path) THEN <<>>
    ELSE MovePlan(from, CoordOf(path[c]), 1) \o DragPlan(CoordOf(path[c]), path, c + 1)

\* the states of one word's gesture when every send succeeds
WordPlan(from, path) ==
    MovePlan(from, CoordOf(path[1]), 0)
        \o <<[state |-> <<1, 0, 0, 0>>, at |-> CoordOf(path[1])]>>
        \o DragPlan(CoordOf(path[1]), path, 2)
        \o <<[state |-> <<0, 0, 0, 0>>, at |-> CoordOf(path[Len(path)])]>>

\* the state AbsoluteMouse sends for a cell when nothing is clamped
AbsState(buttons, c) ==
    LET xy == grid_coords[c]
    IN  [state |-> <<buttons, xy[1] % 256, xy[1] \div 256, xy[2] % 256, xy[2] \div 256, 0>>]

\* the states of one word's gesture in word_hunt_solver.py when every send succeeds
HuntPlan(path) ==
    <<AbsState(0, path[1]), AbsState(1, path[1])>>
        \o [c \in 1..(Len(path) - 1) |-> AbsState(1, path[c + 1])]
        \o <<AbsState(0, path[Len(path)])>>

\* C10: a failed send does not abort the gesture plan: each failure is reported,
\* the run goes on, and the states handed to the transport and the tracked
\* state are those of the run in which no send fails.
C10_FailureContinues ==
    /\ io.reported = io.nfail
    /\ ~io.raised
    /\ (pc = "released" /\ call = "none") =>
          /\ WordSent = WordPlan(main.word_from, CurPath)
          /\ <<mouse.current_x, mouse.current_y>> = CoordOf(CurPath[Len(CurPath)])
          /\ mouse.current_button = 0
    /\ (pc = "loop" /\ call = "none" /\ main.i = Len(out)) => main.released = Len(out)
    /\ (pc = "hunt_loop" /\ call = "none" /\ main.i >= 1) =>
          /\ WordSent = HuntPlan(out[main.i].coordinates)
          /\ main.released = main.i

\* a word's gesture is complete although sends of it have failed
C10_Witness ==
    /\ pc = "released" /\ call = "none"
    /\ io.nfail = MaxFail
    /\ io.reported = MaxFail
    /\ main.i >= 1

\* C11: a release state that the transport fails to deliver is surfaced to the
\* caller as a condition of its own, unlike a lost intermediate state, and no
\* later word's gesture is started while the release is undelivered.
C11_ReleaseFailureSurfaced ==
    main.release_lost => (io.raised /\ pc = "crashed")

\* the calibration table holds every cell index 0..15
TableComplete == \A idx \in 0..15 : idx \in DOMAIN mouse_positions

InTableMode ==
    pc \in {"main_start", "prompt", "solved", "loop", "press", "drag", "released",
            "recal_wait", "crashed"}

\* C12: in table mode a calibration table that lacks a cell index in 0..15 is
\* refused before any gesture: no pointer state is sent and no board is solved.
C12_ConfigErrorBeforeGesture ==
    (InTableMode /\ ~TableComplete) =>
        /\ io.sent = <<>>
        /\ call # "find_words"
        /\ out = <<>>

\* the number of letters a-z, A-Z of a line
NumLetters(line) == Cardinality({n \in 1..Len(line) : char_isalpha(line[n])})

\* the line without its leading and trailing blanks is 16 letters
SixteenLettersStripped(line) ==
    LET body == {n \in 1..Len(line) :
                   (\E m \in 1..n : line[m] # " ") /\ (\E m \in n..Len(line) : line[m] # " ")}
    IN  Cardinality(body) = 16 /\ \A n \in body : char_isalpha(line[n])

\* the statement as claimed: find_words is called only for a line that is exactly
\* 16 characters, all of them letters
C13_OnlySixteenLetterLines ==
    call = "find_words" =>
        /\ Len(main.line) = 16
        /\ \A n \in 1..16 : char_isalpha(main.line[n])

\* C13 (amended): a line read at the board prompt that, in solver.py, is not 16
\* letters once its surrounding whitespace is stripped, or that, in
\* word_hunt_solver.py, does not hold exactly 16 letters a-z (any case, every
\* other character dropped), is rejected: find_words is not called, no pointer
\* state is sent, the controller state is unchanged, and the program is back
\* at the board prompt.
C13_InvalidInputRejected ==
    [][(main'.boards # main.boards /\
          IF pc = "prompt" THEN ~SixteenLettersStripped(main'.line)
                           ELSE NumLetters(main'.line) # 16)
        => /\ pc' = pc
           /\ call' = "none"
           /\ UNCHANGED <<solverVars, mouseVars, tableVars>>]_vars

\* after a solved board, a 16-character line with a digit has been read and the
\* program is at the prompt again with the earlier result untouched
C13_Witness ==
    /\ pc = "prompt" /\ call = "none"
    /\ main.boards = 2
    /\ Len(main.line) = 16 /\ ~isalpha(main.line)
    /\ out # <<>>

-----------------------------------------------------------------------------
(* Properties of get_grid_coordinates and AbsoluteMouse.send_cmd.          *)

GridDone == pc \in {"abs_ready", "abs_sent"}

ExampleCorners == main.tl = <<0, 0>> /\ main.br = <<30, 30>>

\* the statement as claimed: with corners (0,0) and (30,30), cell (row 1, col 2)
\* has the coordinate (x, y) = (10, 20)
C14_CellOneTwoAsClaimed ==
    (GridDone /\ ExampleCorners) =>
        /\ grid_coords[<<0, 0>>] = <<0, 0>>
        /\ grid_coords[<<3, 3>>] = <<30, 30>>
        /\ grid_coords[<<1, 2>>] = <<10, 20>>

\* C14 (amended): with top-left (0,0) and bottom-right (30,30) on the 4x4 grid,
\* get_grid_coordinates maps cell (0,0) to (0,0), cell (3,3) to (30,30) and
\* cell (row 1, col 2) to (x, y) = (20, 10): x comes from the column, y from
\* the row.
C14_InterpolationExample ==
    (GridDone /\ ExampleCorners) =>
        /\ grid_coords[<<0, 0>>] = <<0, 0>>
        /\ grid_coords[<<3, 3>>] = <<30, 30>>
        /\ grid_coords[<<1, 2>>] = <<20, 10>>

\* the grid of the corners (0,0) and (30,30) has been computed
C14_Witness ==
    /\ GridDone /\ ExampleCorners
    /\ DOMAIN grid_coords = Cells
    /\ grid_coords[<<1, 2>>][1] = 20

\* num / 3 rounded to the nearest integer, for num >= 0
RoundThird(num) == (2 * num + 3) \div 6

\* C15: for corners in [0, 32767] and every cell (row, col),
\* x = top_left_x + col * (bottom_right_x - top_left_x) / 3 and
\* y = top_left_y + row * (bottom_right_y - top_left_y) / 3, each rounded to
\* the nearest integer.
C15_RoundedToNearest ==
    GridDone =>
        \A rc \in Cells :
            /\ grid_coords[rc][1] = RoundThird(3 * main.tl[1] + rc[2] * (main.br[1] - main.tl[1]))
            /\ grid_coords[rc][2] = RoundThird(3 * main.tl[2] + rc[1] * (main.br[2] - main.tl[2]))

\* the 16-bit value of two bytes, low byte first
Word16(lo, hi) == lo + 256 * hi

\* C16: for every integer x and y passed to send_cmd, the packet encodes, low
\* byte first, exactly min(32767, max(0, x)) and min(32767, max(0, y)): a
\* coordinate out of range is clamped to the nearer bound, never wrapped modulo
\* 2^16, and every sent coordinate lies in [0, 32767].
C16_ClampedNeverWrapped ==
    frame.op = "send_cmd" =>
        LET s  == io.sent[Len(io.sent)].state
            ex == Min(ABS_MAX, Max(0, frame.x))
            ey == Min(ABS_MAX, Max(0, frame.y))
        IN  /\ Len(io.sent) = 1
            /\ Len(s) = 6
            /\ \A n \in 2..5 : s[n] \in 0..255
            /\ s[1] = frame.buttons
            /\ Word16(s[2], s[3]) = ex
            /\ Word16(s[4], s[5]) = ey
            /\ Word16(s[2], s[3]) \in 0..ABS_MAX
            /\ Word16(s[4], s[5]) \in 0..ABS_MAX
            /\ s[6] = 0

\* send_cmd has sent a state for an x above 2^16 and a negative y
C16_Witness ==
    /\ frame.op = "send_cmd"
    /\ frame.x > 65536 /\ frame.y < 0
    /\ Len(io.sent) = 1
    /\ io.sent[1].state[3] = 127

-----------------------------------------------------------------------------
(* build_trie alone, line by line over a word file.                        *)

MaxTrieLines == 3

\* lines a word file may hold: words, a word twice in other case and spacing,
\* short words, an empty and a blank line, lines with a digit or a symbol
TrieLines == {<<"a", "b", "c">>, <<" ", "A", "b", "C", " ">>, <<"a", "b">>,
              <<"a", "b", "c", "a">>, <<>>, <<" ">>, <<"a", "1", "c">>,
              <<"a", "b", "$">>, <<"a">>, <<"a", " ", "b", "c">>}

TrieFiles == UNION {[1..n -> TrieLines] : n \in 0..MaxTrieLines}

InitTrie ==
    /\ pc = "trie_line"
    /\ call = "none"
    /\ word_file \in TrieFiles
    /\ trie = {}
    /\ board = make_board([n \in 1..16 |-> "a"])
    /\ InitIdle
    /\ InitMouse
    /\ mouse_positions = <<>>
    /\ grid_coords = <<>>
    /\ main = [n |-> 0] @@ NoMain

\* build_trie, lines 15-35: one line of the file, skipped or inserted
TrieLine ==
    /\ pc = "trie_line"
    /\ main.n < Len(word_file)
    /\ LET line == word_file[main.n + 1]
       IN  trie' = IF line_skipped(line) THEN trie ELSE trie_insert(trie, clean_word(line))
    /\ main' = [main EXCEPT !.n = @ + 1]
    /\ UNCHANGED <<pc, call, word_file, board, valid_starts, cell, stack, visited,
                   current_path, results, paths, out, mouseVars, tableVars>>

\* build_trie, lines 41-45: the file is read, the trie is dumped
TrieDump ==
    /\ pc = "trie_line"
    /\ main.n = Len(word_file)
    /\ pc' = "trie_done"
    /\ UNCHANGED <<call, solverVars, mouseVars, mainVars>>

NextTrie == TrieLine \/ TrieDump

SpecTrie == InitTrie /\ [][NextTrie]_vars

\* the lines read so far
LinesRead == {word_file[n] : n \in 1..main.n}

\* a line's word: stripped and lowercased, non-empty, letters only, 3 or longer
IsWordLine(line) ==
    LET w == lower(strip(line))
    IN  Len(w) >= 3 /\ \A n \in 1..Len(w) : char_isalpha(w[n])

WordsRead == {lower(strip(line)) : line \in {l \in LinesRead : IsWordLine(l)}}

\* the nodes that carry the marker, each as the characters on its path
MarkedNodes == {SubSeq(p, 1, Len(p) - 1) : p \in {q \in trie : q[Len(q)] = "$"}}

\* C18: after build_trie has processed any sequence of lines, duplicates
\* included, a node carries '$' exactly when its path spells an input line,
\* stripped and lowercased, that is non-empty, purely alphabetic and of length
\* >= 3; no marker is at depth less than 3; inserting a word again leaves the
\* trie unchanged.
C18_TerminalMarkers ==
    /\ MarkedNodes = WordsRead
    /\ \A w \in MarkedNodes : Len(w) >= 3
    /\ \A w \in WordsRead : trie_insert(trie, w) = trie
    /\ \A p \in trie : \A n \in 1..(Len(p) - 1) : p[n] # "$" /\ SubSeq(p, 1, n) \in trie
    /\ pc = "trie_done" => trie = build_trie(word_file)

\* a file of three lines is read: a word, a skipped line, the word again
C18_Witness ==
    /\ pc = "trie_done"
    /\ Len(word_file) = 3
    /\ IsWordLine(word_file[1])
    /\ ~IsWordLine(word_file[2])
    /\ word_file[3] # word_file[1]
    /\ lower(strip(word_file[3])) = lower(strip(word_file[1]))
    /\ Cardinality(MarkedNodes) = 1

-----------------------------------------------------------------------------
(* Properties of repeated calls of find_words.                             *)

\* the call before the latest one had the same board and the same trie
SameArgsAgain == main.prev # <<>> /\ main.prev.args = main.args

\* C17: find_words is idempotent and leaves its inputs unchanged: a second call
\* on the same board and trie returns the same words, in the same order and
\* with the same path per word, and no call modifies the board or the trie.
C17_Idempotent ==
    main.args # <<>> =>
        /\ board = main.args.board
        /\ trie = main.args.trie
        /\ (SameArgsAgain /\ call # "find_words") => out = main.prev.out

\* find_words has returned seven words twice for the same board and trie
C17_Witness ==
    /\ SameArgsAgain
    /\ call = "none"
    /\ Len(out) = 7
    /\ Len(main.prev.out) = 7

-----------------------------------------------------------------------------
(* Timing of the states MouseSE sends.                                     *)

\* C19: in solver.py a time.sleep occurs between every two consecutive pointer
\* states MouseSE sends (steps of goto, press, release, steps of
\* recalibrate_top_left): no two states are sent back to back.
C19_WaitBetweenStates ==
    InTableMode => ~io.back_to_back

-----------------------------------------------------------------------------
(* Recalibration over a whole session of solver.py.                        *)

\* C23: over a whole session of solver.py, boards entered one after another,
\* never more than 3 word gestures are completed without a call of
\* recalibrate_top_left between them.
C23_AtMostThreeGestures ==
    InTableMode => main.since_recal <= 3

\* C24: in solver.py the held button is never left down: whatever the table and
\* the result list, a release is sent after each press before the next word's
\* hover, before any recalibrate_top_left and before the run stops, normally
\* or by an error.
C24_ButtonNeverLeftDown ==
    (InTableMode /\ (pc \in {"prompt", "solved", "loop", "recal_wait", "crashed"}
                     \/ call = "recalibrate"))
        => mouse.current_button = 0

-----------------------------------------------------------------------------
(* The position MouseSE tracks.                                            *)

\* C25: in solver.py, between two steps of goto and after every goto, the
\* tracked position (current_x, current_y) is the sum of the step vectors sent
\* since the last recalibrate_top_left, which resets it to (0, 0); press and
\* release add (0, 0), so after a word the tracked position is the calibrated
\* coordinate of the word's last cell.
C25_TrackedIsSumOfSteps ==
    (InTableMode /\ call # "recalibrate") =>
        /\ <<mouse.current_x, mouse.current_y>> = io.moved
        /\ pc = "released" =>
              <<mouse.current_x, mouse.current_y>> = CoordOf(CurPath[Len(CurPath)])

\* a word is released after a recalibration made on this board, away from the
\* corner, and its press and release were sent with zero steps
C25_Witness ==
    /\ pc = "released"
    /\ call = "none"
    /\ main.recals >= 1
    /\ io.moved # <<0, 0>>
    /\ io.moved = CoordOf(CurPath[Len(CurPath)])
    /\ io.sent[Len(io.sent)].state = <<0, 0, 0, 0>>
    /\ \E n \in 1..Len(io.sent) : io.sent[n].state = <<1, 0, 0, 0>>

=============================================================================
